---- MODULE Spec2Model ----
\* AdbManager of src/adb_utils.py as a state machine. Text is modelled as a
\* sequence of one-character strings, so that formatting, stripping, splitting
\* and pattern search are computed the way the Python code computes them.
\*
\* A call of a public method is followed from one blocking point to the next:
\* Popen (cmd_start), communicate with its timeout and the kill that follows
\* it (cmd_stop), the decision of _adb, the rounds and the sleeps of cmd_retry,
\* and the return to the caller. The subprocess is the environment: it may
\* write any text of Outputs, exit with any code of ExitCodes, outlive the
\* timeout, and end on its own at any moment while it is alive.
\*
\* Left out: the logger calls (they change no state of the manager), the
\* argument vector shlex.split makes of the command line (the process is
\* identified by the command line itself), and get_sn, which only delegates to
\* the external module UsbViewer.
EXTENDS Integers, Sequences, FiniteSets, TLC

VARIABLES
    sn,          \* self.sn: None or what devices() stored
    pc,          \* where the call in progress stands
    op,          \* the public method in progress, or the last one called
    arg,         \* its argument (command of shell, usb_slot of devices)
    cmd,         \* the command line built by _adb
    inRetry,     \* TRUE inside cmd_retry
    i,           \* loop index of cmd_retry
    alive,       \* the spawned subprocesses that have not terminated
    stdout,      \* what communicate() collected from the last process
    returncode,  \* proc.returncode of the last process
    ret,         \* the text popen returned for the last process
    timedOut,    \* TimeoutExpired was raised for the last process
    first,       \* (ret, returncode) popen returned to _adb for the first process
    adb_ret,     \* what _adb returned to the public method
    result,      \* what the public method returned to its caller
    issued,      \* the command lines handed to Popen during this call, in order
    events       \* start / ok / fail / sleep, in the order they happened in this call

vars == <<sn, pc, op, arg, cmd, inRetry, i, alive, stdout, returncode, ret,
          timedOut, first, adb_ret, result, issued, events>>

\* ---------------------------------------------------------------- constants

\* self.retry_times
retry_times == 3

\* self.timeout, the default of __init__
timeout == 30

\* the {14} of the serial pattern in devices()
SerialLen == 14

\* proc.returncode after proc.kill() ended the process (SIGKILL)
KilledReturncode == -9

\* ------------------------------------------------------------ Python values

None == [type |-> "NoneType"]

PyStr(s) == [type |-> "str", value |-> s]

PyInt(n) == [type |-> "int", value |-> n]

PyBool(b) == [type |-> "bool", value |-> b]

\* the re.Match object re.search returns: its span (0-based) and matched text
PyMatch(a, b, s) == [type |-> "re.Match", span |-> <<a, b>>, match |-> s]

Raised(name) == [type |-> "exception", name |-> name]

\* a == b of Python for the values above: a str never equals an int
PyEq(a, b) == a.type = b.type /\ a = b

\* bool(v): None is false, a Match object is always true, a str is true when not empty
Truthy(v) == 
    CASE v.type = "NoneType" -> FALSE
      [] v.type = "re.Match" -> TRUE
      [] v.type = "str" -> v.value # <<>>

\* -------------------------------------------------------------- text helpers

Min(S) == CHOOSE m \in S : \A n \in S : m <= n

Max(S) == CHOOSE m \in S : \A n \in S : n <= m

DigitChar == <<"0", "1", "2", "3", "4", "5", "6", "7", "8", "9">>

RECURSIVE Str(_)
\* str(n) of a non-negative int
Str(n) == IF n < 10 THEN <<DigitChar[n + 1]>>
          ELSE Str(n \div 10) \o <<DigitChar[(n % 10) + 1]>>

\* s.startswith(p)
StartsWith(s, p) == Len(p) <= Len(s) /\ SubSeq(s, 1, Len(p)) = p

\* p in s
Contains(s, p) == \E k \in 1..(Len(s) - Len(p) + 1) : SubSeq(s, k, k + Len(p) - 1) = p

Whitespace == {" ", "\n", "\t", "\r", "\f"}

\* s.strip()
Strip(s) == 
    LET keep == {k \in 1..Len(s) : s[k] \notin Whitespace}
    IN  IF keep = {} THEN <<>> ELSE SubSeq(s, Min(keep), Max(keep))

RECURSIVE Split(_, _)
\* s.split(c) for a one-character separator c
Split(s, c) == 
    LET at == {k \in 1..Len(s) : s[k] = c}
    IN  IF at = {} THEN <<s>>
        ELSE <<SubSeq(s, 1, Min(at) - 1)>> \o Split(SubSeq(s, Min(at) + 1, Len(s)), c)

\* the f-string conversion {v}: str(v)
Format(v) == 
    CASE v.type = "NoneType" -> <<"N", "o", "n", "e">>
      [] v.type = "str" -> v.value
      [] v.type = "re.Match" ->
            <<"<", "r", "e", ".", "M", "a", "t", "c", "h", " ", "o", "b", "j", "e", "c", "t", ";", " ", "s", "p", "a", "n", "=", "(">> \o Str(v.span[1]) \o <<",", " ">> \o Str(v.span[2])
            \o <<")", ",", " ", "m", "a", "t", "c", "h", "=", "'">> \o v.match \o <<"'", ">">>

\* The pattern of _adb read as a regular expression: ( and ) delimit a group
\* and match no character, . matches any character but a newline, every other
\* character the pattern can hold (letters, digits, space, ' < > ; = ,) matches itself.
RegexItems(pattern) == SelectSeq(pattern, LAMBDA c : c \notin {"(", ")"})

\* re.search(pattern, text) is not None
re_search(pattern, text) == 
    LET items == RegexItems(pattern)
    IN  \E k \in 1..(Len(text) - Len(items) + 1) :
            \A j \in 1..Len(items) :
                IF items[j] = "." THEN text[k + j - 1] # "\n"
                ELSE text[k + j - 1] = items[j]

SerialClass == {DigitChar[k] : k \in 1..10} \cup
    {"A", "B", "C", "D", "E", "F", "G", "H", "I", "J", "K", "L", "M",
     "N", "O", "P", "Q", "R", "S", "T", "U", "V", "W", "X", "Y", "Z"}

\* re.search(r'[0-9A-Z]{14}', line): the leftmost run of 14 characters of the class
re_search_serial(line) == 
    LET at == {k \in 1..(Len(line) - SerialLen + 1) :
                  \A j \in 0..(SerialLen - 1) : line[k + j] \in SerialClass}
    IN  IF at = {} THEN None
        ELSE PyMatch(Min(at) - 1, Min(at) - 1 + SerialLen,
                     SubSeq(line, Min(at), Min(at) + SerialLen - 1))

\* Characters int() accepts as digits here
IsDigits(s) == s # <<>> /\ \A k \in 1..Len(s) : \E d \in 1..10 : s[k] = DigitChar[d]

RECURSIVE DigitsValue(_)
DigitsValue(s) == 
    IF s = <<>> THEN 0
    ELSE 10 * DigitsValue(SubSeq(s, 1, Len(s) - 1))
         + (CHOOSE d \in 0..9 : DigitChar[d + 1] = s[Len(s)])

\* int(s) for a str: surrounding whitespace and one sign are accepted (the
\* texts drawn here hold no underscore, which int() would accept between digits)
PyIntOf(s) == 
    LET t == Strip(s)
        signed == t # <<>> /\ t[1] \in {"+", "-"}
        body == IF signed THEN SubSeq(t, 2, Len(t)) ELSE t
    IN  IF ~IsDigits(body) THEN Raised("ValueError")
        ELSE IF signed /\ t[1] = "-" THEN PyInt(0 - DigitsValue(body))
        ELSE PyInt(DigitsValue(body))

\* ------------------------------------------------------------------- inputs

\* commands handed to shell()
ShellCommands == {<<"l", "s">>, <<"s", "h", "e", "l", "l", " ", "l", "s">>, <<"s", "h", "e", "l", "l">>, <<"s", "h", "e", "l", "l", " ", "s", "h", "e", "l", "l">>}

\* usb_slot handed to devices()
UsbSlots == {<<"2", "-", "1">>, <<"1", "-", "1">>}

\* exit codes of a process that ends on its own
ExitCodes == {0, 1}

\* what a process may write on its combined output stream
Outputs == {
    <<>>,
    <<"1", "\n">>,
    <<"e", "r", "r", "o", "r", ":", " ", "c", "l", "o", "s", "e", "d", "\n">>,
    <<"e", "r", "r", "o", "r", ":", " ", "d", "e", "v", "i", "c", "e", " ", "'", "N", "o", "n", "e", "'", " ", "n", "o", "t", " ", "f", "o", "u", "n", "d", "\n">>,
    <<"e", "r", "r", "o", "r", ":", " ", "d", "e", "v", "i", "c", "e", " ", "'", "0", "1", "2", "3", "4", "5", "6", "7", "8", "9", "A", "B", "C", "D", "'", " ", "n", "o", "t", " ", "f", "o", "u", "n", "d", "\n">>,
    <<"d", "e", "v", "i", "c", "e", " ", "'", "<", "r", "e", ".", "M", "a", "t", "c", "h", " ", "o", "b", "j", "e", "c", "t", ";", " ", "s", "p", "a", "n", "=", "0", ",", " ", "1", "4", ",", " ", "m", "a", "t", "c", "h", "=", "'", "0", "1", "2", "3", "4", "5", "6", "7", "8", "9", "A", "B", "C", "D", "'", ">", "'", " ", "n", "o", "t", " ", "f", "o", "u", "n", "d", "\n">>,
    <<"d", "e", "v", "i", "c", "e", " ", "'", "<", "r", "e", ".", "M", "a", "t", "c", "h", " ", "o", "b", "j", "e", "c", "t", ";", " ", "s", "p", "a", "n", "=", "(", "0", ",", " ", "1", "4", ")", ",", " ", "m", "a", "t", "c", "h", "=", "'", "0", "1", "2", "3", "4", "5", "6", "7", "8", "9", "A", "B", "C", "D", "'", ">", "'", " ", "n", "o", "t", " ", "f", "o", "u", "n", "d", "\n">>,
    <<"L", "i", "s", "t", " ", "o", "f", " ", "d", "e", "v", "i", "c", "e", "s", "\n", "0", "1", "2", "3", "4", "5", "6", "7", "8", "9", "A", "B", "C", "D", " ", "u", "s", "b", ":", "2", "-", "1", "\n", "u", "s", "b", ":", "1", "-", "1", " ", "A", "B", "C", "D", "E", "F", "G", "H", "I", "J", "0", "1", "2", "3", "\n">>,
    <<"L", "i", "s", "t", " ", "o", "f", " ", "d", "e", "v", "i", "c", "e", "s", "\n", "e", "m", "u", "l", "a", "t", "o", "r", "-", "5", "5", "5", "4", " ", "u", "s", "b", ":", "2", "-", "1", "\n">> }

\* what a process may have written when its timeout expires
TimedOutputs == {<<>>, <<"e", "r", "r", "o", "r", ":", " ", "d", "e", "v", "i", "c", "e", " ", "'", "N", "o", "n", "e", "'", " ", "n", "o", "t", " ", "f", "o", "u", "n", "d", "\n">>}

\* ---------------------------------------------------------------- the code

\* str(err) of the TimeoutExpired that communicate raises. The repr of the
\* argument list inside it is kept as the single symbol <args>.
TimeoutText == 
    <<"C", "o", "m", "m", "a", "n", "d", " ", "'">> \o <<"<args>">> \o <<"'", " ", "t", "i", "m", "e", "d", " ", "o", "u", "t", " ", "a", "f", "t", "e", "r", " ">> \o Str(timeout) \o <<" ", "s", "e", "c", "o", "n", "d", "s">>

\* _adb: the command line, with -s {self.sn} when self.sn is true
adb_cmd(self_sn, command) == 
    IF Truthy(self_sn) THEN <<"a", "d", "b", " ", "-", "s", " ">> \o Format(self_sn) \o <<" ">> \o command
    ELSE <<"a", "d", "b", " ">> \o command

\* _adb: the condition under which cmd_retry is called
RetryCondition(self_sn, text, code) == 
    code # 0 /\ re_search(<<"d", "e", "v", "i", "c", "e", " ", "'">> \o Format(self_sn) \o <<"'", " ", "n", "o", "t", " ", "f", "o", "u", "n", "d">>, text)

LoopContinuesOneMore(k) == k <= retry_times

\* cmd_retry: for _ in range(self.retry_times), k the index of the next round
LoopContinues(k) == k < retry_times

\* cmd_retry: the text returned when every round failed
RetryFailedText(command) == <<"R", "e", "t", "r", "y", " ", "c", "o", "m", "m", "a", "n", "d", " ", "f", "a", "i", "l", "e", "d", ":", " ">> \o command

shell_cmd_always_prepends(command) == <<"s", "h", "e", "l", "l", " ">> \o command

\* shell: the sub-command handed to _adb
shell_cmd(command) == 
    IF StartsWith(command, <<"s", "h", "e", "l", "l", " ">>) THEN command ELSE <<"s", "h", "e", "l", "l", " ">> \o command

ReapWithoutWaiting(procs, pid) == procs

\* communicate() returned: the process has terminated and is no longer alive
Reap(procs, pid) == procs \ {pid}

\* devices: the value of self.sn after the loop over ret.split('\n')
devices_sn(self_sn, text, usb_slot) == 
    LET lines == Split(text, "\n")
        hits == {k \in 1..Len(lines) : Contains(lines[k], usb_slot)}
    IN  IF hits = {} THEN self_sn ELSE re_search_serial(lines[Min(hits)])

\* the sub-command each public method hands to _adb
SubCommand(name, a) == 
    CASE name = "shell" -> shell_cmd(a)
      [] name = "reboot" -> <<"r", "e", "b", "o", "o", "t">>
      [] name = "wait_for_device" -> <<"w", "a", "i", "t", "-", "f", "o", "r", "-", "d", "e", "v", "i", "c", "e">>
      [] name = "devices" -> <<"d", "e", "v", "i", "c", "e", "s", " ", "-", "l">>
      [] name = "versions" -> shell_cmd(<<"v", "e", "r", "s", "i", "o", "n", "s">>)
      [] name = "boot_completed" -> shell_cmd(<<"g", "e", "t", "p", "r", "o", "p", " ", "s", "y", "s", ".", "b", "o", "o", "t", "_", "c", "o", "m", "p", "l", "e", "t", "e", "d">>)
      [] name = "battery_capacity" -> shell_cmd(<<"c", "a", "t", " ", "/", "s", "y", "s", "/", "c", "l", "a", "s", "s", "/", "p", "o", "w", "e", "r", "_", "s", "u", "p", "p", "l", "y", "/", "b", "a", "t", "t", "e", "r", "y", "/", "c", "a", "p", "a", "c", "i", "t", "y">>)
      [] name = "battery_voltage" -> shell_cmd(<<"c", "a", "t", " ", "/", "s", "y", "s", "/", "c", "l", "a", "s", "s", "/", "p", "o", "w", "e", "r", "_", "s", "u", "p", "p", "l", "y", "/", "b", "a", "t", "t", "e", "r", "y", "/", "v", "o", "l", "t", "a", "g", "e", "_", "n", "o", "w">>)

\* what each public method returns, given what _adb returned
MethodResult(name, a, self_sn, text) == 
    CASE name \in {"shell", "reboot", "wait_for_device", "versions"} -> PyStr(text)
      [] name = "devices" -> devices_sn(self_sn, text, a)
      [] name = "boot_completed" -> PyBool(PyEq(PyStr(text), PyInt(1)))
      [] name \in {"battery_capacity", "battery_voltage"} -> PyIntOf(text)

\* ------------------------------------------------------------------- state

Init == 
    /\ sn = None
    /\ pc = "idle"
    /\ op = "__init__"
    /\ arg = <<>>
    /\ cmd = <<>>
    /\ inRetry = FALSE
    /\ i = 0
    /\ alive = {}
    /\ stdout = <<>>
    /\ returncode = 0
    /\ ret = <<>>
    /\ timedOut = FALSE
    /\ first = [ret |-> <<>>, returncode |-> 0]
    /\ adb_ret = <<>>
    /\ result = None
    /\ issued = <<>>
    /\ events = <<>>

\* cmd_start: Popen(command): one more subprocess is alive
cmd_start(command) == 
    /\ alive' = alive \cup {Len(issued) + 1}
    /\ issued' = Append(issued, command)
    /\ events' = Append(events, "start")
    /\ pc' = "communicate"

\* A public method is entered: _adb builds the command line and popen starts
\* the first process.
Call(name, a) == 
    /\ op' = name
    /\ arg' = a
    /\ cmd' = adb_cmd(sn, SubCommand(name, a))
    /\ inRetry' = FALSE
    /\ i' = 0
    /\ alive' = alive \cup {1}
    /\ issued' = <<cmd'>>
    /\ events' = <<"start">>
    /\ pc' = "communicate"
    /\ stdout' = <<>>
    /\ returncode' = 0
    /\ ret' = <<>>
    /\ timedOut' = FALSE
    /\ first' = [ret |-> <<>>, returncode |-> 0]
    /\ adb_ret' = <<>>
    /\ result' = None
    /\ UNCHANGED sn

shell == 
    /\ pc = "idle"
    /\ \E command \in ShellCommands : Call("shell", command)

reboot == 
    /\ pc = "idle"
    /\ Call("reboot", <<>>)

boot_completed == 
    /\ pc = "idle"
    /\ Call("boot_completed", <<>>)

wait_for_device == 
    /\ pc = "idle"
    /\ Call("wait_for_device", <<>>)

devices == 
    /\ pc = "idle"
    /\ \E usb_slot \in UsbSlots : Call("devices", usb_slot)

versions == 
    /\ pc = "idle"
    /\ Call("versions", <<>>)

battery_capacity == 
    /\ pc = "idle"
    /\ Call("battery_capacity", <<>>)

battery_voltage == 
    /\ pc = "idle"
    /\ Call("battery_voltage", <<>>)

\* popen has returned (text, code) for the process that just ended
PopenReturns(out, text, code) == 
    /\ stdout' = out
    /\ ret' = text
    /\ returncode' = code
    /\ alive' = Reap(alive, Len(issued))
    /\ events' = Append(events, IF code = 0 THEN "ok" ELSE "fail")
    /\ first' = IF inRetry THEN first ELSE [ret |-> text, returncode |-> code]
    /\ pc' = "popen_returned"

\* cmd_stop: communicate(timeout) returns because the process exited
cmd_stop_exited == 
    /\ pc = "communicate"
    /\ \E out \in Outputs, code \in ExitCodes : PopenReturns(out, Strip(out), code)
    /\ timedOut' = FALSE
    /\ UNCHANGED <<sn, op, arg, cmd, inRetry, i, adb_ret, result, issued>>

\* cmd_stop: communicate(timeout) raises TimeoutExpired, the process still runs
cmd_stop_timeout == 
    /\ pc = "communicate"
    /\ pc' = "expired"
    /\ timedOut' = TRUE
    /\ UNCHANGED <<sn, op, arg, cmd, inRetry, i, alive, stdout, returncode, ret,
                   first, adb_ret, result, issued, events>>

\* cmd_stop, except branch: proc.kill() ends the process, communicate() collects
\* what it wrote, str(err) is appended
cmd_stop_killed == 
    /\ pc = "expired"
    /\ \E out \in TimedOutputs :
           PopenReturns(out, Strip(out \o TimeoutText), KilledReturncode)
    /\ UNCHANGED <<sn, op, arg, cmd, inRetry, i, timedOut, adb_ret, result, issued>>

\* cmd_stop, except branch, when the process ended on its own after the
\* timeout was raised and before proc.kill() ran: kill() finds it ended and
\* proc.returncode is the code the process exited with
cmd_stop_ended_before_kill == 
    /\ pc = "expired"
    /\ \E out \in TimedOutputs, code \in ExitCodes :
           PopenReturns(out, Strip(out \o TimeoutText), code)
    /\ UNCHANGED <<sn, op, arg, cmd, inRetry, i, timedOut, adb_ret, result, issued>>

\* _adb returns text to the public method, which returns to its caller
Return(text) == 
    /\ adb_ret' = text
    /\ result' = MethodResult(op, arg, sn, text)
    /\ sn' = IF op = "devices" THEN devices_sn(sn, text, arg) ELSE sn
    /\ pc' = "idle"

\* _adb after popen: no retry, ret is returned
adb_return == 
    /\ pc = "popen_returned"
    /\ ~inRetry
    /\ ~RetryCondition(sn, ret, returncode)
    /\ Return(ret)
    /\ UNCHANGED <<op, arg, cmd, inRetry, i, alive, stdout, returncode, ret,
                   timedOut, first, issued, events>>

\* _adb after popen: cmd_retry is called and its first round starts a process
adb_retry == 
    /\ pc = "popen_returned"
    /\ ~inRetry
    /\ RetryCondition(sn, ret, returncode)
    /\ inRetry' = TRUE
    /\ i' = 0
    /\ LoopContinues(0)
    /\ cmd_start(cmd)
    /\ UNCHANGED <<sn, op, arg, cmd, stdout, returncode, ret, timedOut, first,
                   adb_ret, result>>

\* cmd_retry: the round's process returned 0, its text is returned
cmd_retry_return == 
    /\ pc = "popen_returned"
    /\ inRetry
    /\ returncode = 0
    /\ Return(ret)
    /\ UNCHANGED <<op, arg, cmd, inRetry, i, alive, stdout, returncode, ret,
                   timedOut, first, issued, events>>

\* cmd_retry: the round's process failed, time.sleep(1) begins
cmd_retry_sleep == 
    /\ pc = "popen_returned"
    /\ inRetry
    /\ returncode # 0
    /\ pc' = "sleep"
    /\ events' = Append(events, "sleep")
    /\ UNCHANGED <<sn, op, arg, cmd, inRetry, i, alive, stdout, returncode, ret,
                   timedOut, first, adb_ret, result, issued>>

\* cmd_retry: the sleep is over and the next round starts a process
cmd_retry_next == 
    /\ pc = "sleep"
    /\ LoopContinues(i + 1)
    /\ i' = i + 1
    /\ cmd_start(cmd)
    /\ UNCHANGED <<sn, op, arg, cmd, inRetry, stdout, returncode, ret, timedOut,
                   first, adb_ret, result>>

\* cmd_retry: the sleep is over and no round is left
cmd_retry_failed == 
    /\ pc = "sleep"
    /\ ~LoopContinues(i + 1)
    /\ Return(RetryFailedText(cmd))
    /\ UNCHANGED <<op, arg, cmd, inRetry, i, alive, stdout, returncode, ret,
                   timedOut, first, issued, events>>

Next == 
    \/ shell
    \/ reboot
    \/ boot_completed
    \/ wait_for_device
    \/ devices
    \/ versions
    \/ battery_capacity
    \/ battery_voltage
    \/ cmd_stop_exited
    \/ cmd_stop_timeout
    \/ cmd_stop_killed
    \/ cmd_stop_ended_before_kill
    \/ adb_return
    \/ adb_retry
    \/ cmd_retry_return
    \/ cmd_retry_sleep
    \/ cmd_retry_next
    \/ cmd_retry_failed

Spec == Init /\ [][Next]_vars

\* ------------------------------------------------------------------- claims

\* a call of a public method has been made
Called == op # "__init__"

\* the text of adb's message for serial number s
NotFoundMessage(s) == <<"d", "e", "v", "i", "c", "e", " ", "'">> \o s \o <<"'", " ", "n", "o", "t", " ", "f", "o", "u", "n", "d">>

\* the serial number self.sn stands for
SerialOf(v) == IF v.type = "re.Match" THEN v.match ELSE Format(v)

\* C1: cmd_retry is entered (a second process is started) only when the first
\* process ended with a non-zero exit code and its output contains the
\* message device '<sn>' not found for the current serial number, read either
\* as the serial itself or as self.sn formatted into the text.
C1_RetryOnlyOnDeviceNotFound == 
    (pc # "idle" /\ Len(issued) > 1) =>
        /\ first.returncode # 0
        /\ \/ Contains(first.ret, NotFoundMessage(SerialOf(sn)))
           \/ Contains(first.ret, NotFoundMessage(Format(sn)))

\* C2: a call starts between 1 and 1 + retry_times processes, of which at most
\* retry_times are re-executions; no process is started after one that
\* returned 0; when a re-execution returned 0, _adb returns the text popen
\* returned for it.
C2_FixedRetryCount == 
    /\ Called => Len(issued) \in 1..(1 + retry_times)
    /\ i < retry_times
    /\ \A k \in 1..Len(events) : events[k] = "ok" => k = Len(events)
    /\ (pc = "idle" /\ inRetry /\ returncode = 0) => adb_ret = ret

\* C2 witness: the third re-execution returned 0 and its text was returned
C2_Witness == 
    /\ pc = "idle"
    /\ Len(issued) = 1 + retry_times
    /\ returncode = 0
    /\ adb_ret = ret
    /\ ret # <<>>

\* C3: every re-execution directly follows one sleep that itself directly
\* follows the failed execution before it, and no sleep is the last thing a
\* call does.
C3_OneWaitBeforeEachReexecution == 
    /\ \A k \in 2..Len(events) :
           events[k] = "start" =>
               k >= 3 /\ events[k - 1] = "sleep" /\ events[k - 2] = "fail"
    /\ (pc = "idle" /\ Called) => events[Len(events)] # "sleep"

\* C4: when the last process of shell, reboot, wait_for_device or versions
\* ended with a non-zero exit code, the caller receives that exit code and the
\* text of that process's output.
C4_FailureSurfaced == 
    (pc = "idle" /\ op \in {"shell", "reboot", "wait_for_device", "versions"}
       /\ returncode # 0) =>
        /\ "returncode" \in DOMAIN result
        /\ result.returncode = returncode
        /\ result.value \in {stdout, Strip(stdout)}

\* C5: when popen returns after the timeout expired, the process has
\* terminated, the exit code is non-zero and the text is the collected output
\* with the timeout error text appended.
C5_TimeoutKills == 
    (pc = "popen_returned" /\ timedOut) =>
        /\ alive = {}
        /\ returncode # 0
        /\ ret = Strip(stdout \o TimeoutText)

\* the lines of a listing that contain usb_slot
SlotLines(text, usb_slot) == 
    {k \in 1..Len(Split(text, "\n")) : Contains(Split(text, "\n")[k], usb_slot)}

\* devices(usb_slot) resolves a serial from the listing text: the first line
\* that contains usb_slot holds a run of 14 characters of [0-9A-Z]
Resolves(text, usb_slot) == 
    /\ SlotLines(text, usb_slot) # {}
    /\ re_search_serial(Split(text, "\n")[Min(SlotLines(text, usb_slot))]) # None

\* the serial text a resolving listing gives for usb_slot
ListedSerial(text, usb_slot) == 
    re_search_serial(Split(text, "\n")[Min(SlotLines(text, usb_slot))]).match

\* C6: after devices(usb_slot) on a listing that resolves, self.sn is the
\* serial text, devices returned it, and the next command line is
\* adb -s <serial> followed by the sub-command.
C6_SerialStored == 
    (pc = "idle" /\ op = "devices" /\ Resolves(adb_ret, arg)) =>
        /\ sn = PyStr(ListedSerial(adb_ret, arg))
        /\ result = sn
        /\ adb_cmd(sn, <<"r", "e", "b", "o", "o", "t">>)
             = <<"a", "d", "b", " ", "-", "s", " ">> \o ListedSerial(adb_ret, arg) \o <<" ", "r", "e", "b", "o", "o", "t">>

\* C7: at most one subprocess is alive; none is alive once popen has
\* returned; and a process is started only after the one before it has ended
\* and its output has been collected.
C7_NoParallelism == 
    /\ Cardinality(alive) <= 1
    /\ pc \in {"idle", "popen_returned", "sleep"} => alive = {}
    /\ pc \in {"communicate", "expired"} => alive = {Len(issued)}
    /\ \A k \in 2..Len(events) :
           events[k] = "start" => events[k - 1] \in {"fail", "sleep"}

\* C7 witness: the third process of a call is alive after its timeout expired
C7_Witness == 
    /\ pc = "expired"
    /\ Len(issued) = 3
    /\ alive = {3}

\* C8: boot_completed returns True exactly when the answer of the device is 1.
C8_BootCompleted == 
    (pc = "idle" /\ op = "boot_completed") =>
        result = PyBool(returncode = 0 /\ adb_ret = <<"1">>)

\* C9: self.sn changes only when devices(usb_slot) returns on a listing that
\* resolves a serial for usb_slot.
C9_SnChangesOnlyOnResolution == 
    [][sn' # sn => (op = "devices" /\ pc' = "idle" /\ Resolves(adb_ret', arg))]_vars

\* the adb prefix of a command line, with the serial number field formatted in
AdbPrefix(v) == IF v = None THEN <<"a", "d", "b", " ">> ELSE <<"a", "d", "b", " ", "-", "s", " ">> \o Format(v) \o <<" ">>

\* C10: for a command c that does not start with shell followed by a space,
\* shell(c) and shell(shell c) issue the same command line, the adb prefix
\* followed by one shell and c, and every re-execution issues it again.
C10_ShellPrependedOnce == 
    \A c \in {x \in ShellCommands : ~StartsWith(x, <<"s", "h", "e", "l", "l", " ">>)} :
        (op = "shell" /\ pc # "idle" /\ arg \in {c, <<"s", "h", "e", "l", "l", " ">> \o c}) =>
            \A k \in 1..Len(issued) :
                issued[k] = AdbPrefix(sn) \o <<"s", "h", "e", "l", "l", " ">> \o c

\* C10 witness: shell was called with the prefix already present, for a
\* resolved device, and the retry loop has issued the command line again
C10_Witness == 
    /\ op = "shell"
    /\ arg = <<"s", "h", "e", "l", "l", " ", "l", "s">>
    /\ sn # None
    /\ Len(issued) = 3
    /\ pc = "communicate"

====
